---------------------------- MODULE Spec2Model ----------------------------
(***************************************************************************)
(* A model of the GHL Financial Insights dashboard (App component): the    *)
(* currency parser, the record mapping of fetchData, the mock generator,   *)
(* the loader's state assignments and the memoised derivations             *)
(* (uniqueNames, uniqueMonths, filteredData, stats).                       *)
(*                                                                         *)
(* Representation.  A JavaScript string is the sequence of its characters  *)
(* (one-character strings); CodeUnit gives a character's UTF-16 code unit. *)
(* A JavaScript number is an integer count of 1/Scale units (hundredths),  *)
(* exact for every decimal with at most two fractional digits; binary      *)
(* floating-point rounding is not modelled.  A JavaScript value is a       *)
(* tagged record [t |-> type, v |-> payload].                              *)
(***************************************************************************)
EXTENDS Integers, Sequences, FiniteSets, TLC

(***************************************************************************)
(* Bounds of the model.                                                    *)
(***************************************************************************)
\* longest webhook array drawn
MaxItems == 2
\* longest text drawn over CurrencyAlphabet for the currency parser
MaxStrLen == 3
\* longest record collection drawn for the month options
MaxMonths == 4

\* numbers are counted in 1/Scale units
Scale == 10 * 10

(***************************************************************************)
(* Strings                                                                 *)
(***************************************************************************)
Digits == <<"0", "1", "2", "3", "4", "5", "6", "7", "8", "9">>
LowerCase == <<"a", "b", "c", "d", "e", "f", "g", "h", "i", "j", "k", "l", "m",
               "n", "o", "p", "q", "r", "s", "t", "u", "v", "w", "x", "y", "z">>
UpperCase == <<"A", "B", "C", "D", "E", "F", "G", "H", "I", "J", "K", "L", "M",
               "N", "O", "P", "Q", "R", "S", "T", "U", "V", "W", "X", "Y", "Z">>

Range(s) == {s[i] : i \in DOMAIN s}
IndexOf(s, c) == CHOOSE i \in DOMAIN s : s[i] = c

IsDigit(c) == c \in Range(Digits)
DigitVal(c) == IndexOf(Digits, c) - 1

\* UTF-16 code unit of the characters the model uses
CodeUnit(c) ==
    CASE c = " " -> 32
      [] c = "$" -> 36
      [] c = "," -> 44
      [] c = "-" -> 45
      [] c = "." -> 46
      [] c = "/" -> 47
      [] c \in Range(Digits) -> 47 + IndexOf(Digits, c)
      [] c \in Range(UpperCase) -> 64 + IndexOf(UpperCase, c)
      [] c = "[" -> 91
      [] c = "]" -> 93
      [] c \in Range(LowerCase) -> 96 + IndexOf(LowerCase, c)

\* s < t in the order of String comparison (code unit by code unit, a proper
\* prefix first)
RECURSIVE StrLess(_, _)
StrLess(s, t) ==
    IF t = <<>> THEN FALSE
    ELSE IF s = <<>> THEN TRUE
    ELSE IF CodeUnit(Head(s)) # CodeUnit(Head(t))
         THEN CodeUnit(Head(s)) < CodeUnit(Head(t))
    ELSE StrLess(Tail(s), Tail(t))

\* Array.prototype.join / String concatenation of a sequence of strings
RECURSIVE Join(_, _)
Join(parts, sep) ==
    IF parts = <<>> THEN <<>>
    ELSE IF Len(parts) = 1 THEN parts[1]
    ELSE parts[1] \o sep \o Join(Tail(parts), sep)

\* all sequences over set S of length at most n
RECURSIVE SeqsUpTo(_, _)
SeqsUpTo(S, n) ==
    IF n = 0 THEN {<<>>}
    ELSE LET shorter == SeqsUpTo(S, n - 1)
         IN  shorter \cup {Append(s, c) : s \in shorter, c \in S}

(***************************************************************************)
(* JavaScript values (what JSON.parse yields, and undefined for a key that *)
(* is absent)                                                              *)
(***************************************************************************)
JSUndefined == [t |-> "undefined"]
JSNull == [t |-> "null"]
JSNumber(n) == [t |-> "number", v |-> n]
JSString(s) == [t |-> "string", v |-> s]
JSBoolean(b) == [t |-> "boolean", v |-> b]
\* an object is the function from its own keys to their values
JSObject(props) == [t |-> "object", v |-> props]
JSArray(elems) == [t |-> "array", v |-> elems]
EmptyProps == [k \in {} |-> JSUndefined]

\* the outcome of evaluating code: a value, or a thrown exception
Return(x) == [thrown |-> FALSE, v |-> x]
Throw(e) == [thrown |-> TRUE, v |-> e]

\* item[key] on a value: TypeError on null and undefined, the own property of
\* an object, undefined on the primitives and arrays (none of the keys the
\* program reads is a property of theirs)
GetProp(item, key) ==
    IF item.t \in {"null", "undefined"} THEN Throw("TypeError")
    ELSE IF item.t = "object" /\ key \in DOMAIN item.v THEN Return(item.v[key])
    ELSE Return(JSUndefined)

\* ToBoolean
Truthy(x) ==
    CASE x.t \in {"undefined", "null"} -> FALSE
      [] x.t = "number" -> x.v # 0
      [] x.t = "string" -> x.v # <<>>
      [] x.t = "boolean" -> x.v
      [] OTHER -> TRUE

\* decimal digits of a natural number
RECURSIVE NatToString(_)
NatToString(n) ==
    IF n < 10 THEN <<Digits[n + 1]>>
    ELSE Append(NatToString(n \div 10), Digits[(n % 10) + 1])

\* Number.prototype.toString of n/Scale
NumberToString(n) ==
    LET a == IF n < 0 THEN -n ELSE n
        whole == NatToString(a \div Scale)
        f == a % Scale
        frac == IF f = 0 THEN <<>>
                ELSE IF f % 10 = 0 THEN <<".", Digits[(f \div 10) + 1]>>
                ELSE <<".", Digits[(f \div 10) + 1], Digits[(f % 10) + 1]>>
    IN  (IF n < 0 THEN <<"-">> ELSE <<>>) \o whole \o frac

ObjectObject == <<"[", "o", "b", "j", "e", "c", "t", " ", "O", "b", "j", "e", "c", "t", "]">>

\* val.toString(): the method is looked up on the value, so an object whose
\* own "toString" key holds JSON data (never a function) has no callable
\* toString; an array joins the strings of its elements (null as "")
joinParts(parts) ==
    IF \E i \in DOMAIN parts : parts[i].thrown THEN Throw("TypeError")
    ELSE Return(Join([i \in DOMAIN parts |-> parts[i].v], <<",">>))

RECURSIVE toString(_)
toString(val) ==
    CASE val.t = "string" -> Return(val.v)
      [] val.t = "number" -> Return(NumberToString(val.v))
      [] val.t = "boolean" ->
            Return(IF val.v THEN <<"t", "r", "u", "e">> ELSE <<"f", "a", "l", "s", "e">>)
      [] val.t = "object" ->
            IF "toString" \in DOMAIN val.v THEN Throw("TypeError")
            ELSE Return(ObjectObject)
      [] val.t = "array" ->
            joinParts([i \in DOMAIN val.v |->
                         IF val.v[i].t = "null" THEN Return(<<>>) ELSE toString(val.v[i])])
      [] OTHER -> Throw("TypeError")

(***************************************************************************)
(* parseCurrency                                                           *)
(***************************************************************************)
\* .replace(/[^\d.-]/g, '')
StripNonNumeric(s) == SelectSeq(s, LAMBDA c : IsDigit(c) \/ c = "." \/ c = "-")

\* the longest prefix of s made of digits
RECURSIVE DigitPrefix(_)
DigitPrefix(s) ==
    IF s # <<>> /\ IsDigit(Head(s)) THEN <<Head(s)>> \o DigitPrefix(Tail(s)) ELSE <<>>

\* the decimal value of the first n digits of ds
RECURSIVE DigitsTo(_, _)
DigitsTo(ds, n) ==
    IF n = 0 THEN 0 ELSE 10 * DigitsTo(ds, n - 1) + DigitVal(ds[n])

DigitsValue(ds) == DigitsTo(ds, Len(ds))

NaN == [nan |-> TRUE, v |-> 0]
Finite(n) == [nan |-> FALSE, v |-> n]

\* the digits after a leading ".", if any
FractionOf(rest) ==
    IF rest # <<>> /\ Head(rest) = "." THEN DigitPrefix(Tail(rest)) ELSE <<>>

\* whole.frac in 1/Scale units (fractional digits past the second are below
\* the model's resolution); NaN when there is no digit at all
Magnitude(whole, frac) ==
    IF whole = <<>> /\ frac = <<>> THEN NaN
    ELSE Finite(DigitsValue(whole) * Scale + DigitsValue(SubSeq(frac \o <<"0", "0">>, 1, 2)))

AfterWhole(body, whole) ==
    Magnitude(whole, FractionOf(SubSeq(body, Len(whole) + 1, Len(body))))

ParseUnsigned(body) == AfterWhole(body, DigitPrefix(body))

Negate(x) == IF x.nan THEN x ELSE Finite(-x.v)

\* parseFloat on a text of digits, "." and "-": the longest prefix that is
\* [-] digits [. digits] or [-] . digits; NaN when there is none
ParseFloat(s) ==
    IF s # <<>> /\ Head(s) = "-" THEN Negate(ParseUnsigned(Tail(s))) ELSE ParseUnsigned(s)

\* isNaN(parsed) ? 0 : parsed
zeroIfNaN(parsed) == IF parsed.nan THEN 0 ELSE parsed.v

\* the last three lines of parseCurrency, str being val.toString()
parseText(str) ==
    IF str.thrown THEN str ELSE Return(zeroIfNaN(ParseFloat(StripNonNumeric(str.v))))

parseCurrency(val) ==
    IF val.t \in {"null", "undefined"} \/ val = JSString(<<>>) THEN Return(0)
    ELSE IF val.t = "number" THEN Return(val.v)
    ELSE parseText(toString(val))

(***************************************************************************)
(* Math.random                                                             *)
(***************************************************************************)
\* seeds of the generator the runs are drawn from
Seeds == {0, 141, 911}

\* Math.random(): the k-th draw (k = 0, 1, ...) of the generator seeded with
\* seed, as the numerator q of q/1296 in [0, 1); 1296 = 36 * 36, so a draw
\* has at most two base-36 fractional digits, and a draw of 0 is possible
MathRandom(seed, k) == (seed + 385 * (k + 1)) % 1296

Base36 == Digits \o LowerCase

\* Math.random().toString(36).substr(2, 9): toString(36) is "0" for 0 and
\* "0." followed by the fractional digits (no trailing zero) otherwise;
\* substr(2, 9) keeps what follows the "0."
randomId(q) ==
    LET d1 == q \div 36
        d2 == q % 36
        text == IF q = 0 THEN <<"0">>
                ELSE IF d2 = 0 THEN <<"0", ".", Base36[d1 + 1]>>
                ELSE <<"0", ".", Base36[d1 + 1], Base36[d2 + 1]>>
    IN  SubSeq(text, 3, IF Len(text) < 11 THEN Len(text) ELSE 11)

(***************************************************************************)
(* The record mapping of fetchData (dataArray.map callback)                *)
(***************************************************************************)
KeyPotential == "Potential Revenue"
KeyInvoice == "Invoice Amount"
KeyCollected == "Dollars Collected"
KeyExpense == "Expense Incurred"
KeyNet == "Net Revenue"
KeyOppId == "Opportunity ID"
KeyMonth == "MM/YYYY"

UnknownEntity == <<"U", "n", "k", "n", "o", "w", "n", " ", "E", "n", "t", "i", "t", "y">>
DefaultMonth == <<"0", "1", "/", "2", "0", "2", "4">>

\* a ?? b: only null and undefined give way to b
nullishOr(a, b) == IF a.t \in {"undefined", "null"} THEN b ELSE a

\* a || b
Or(a, b) == IF Truthy(a) THEN a ELSE b

\* item['Net Revenue'] !== null ? parseCurrency(item['Net Revenue']) : (coll - exp)
netOf(raw, coll, exp) ==
    IF raw # JSNull THEN parseCurrency(raw) ELSE Return(coll - exp)

\* item['Opportunity ID'] || item.id || item.key || Math.random()...
idOf(item, q) ==
    Or(GetProp(item, KeyOppId).v,
       Or(GetProp(item, "id").v, Or(GetProp(item, "key").v, JSString(randomId(q)))))

\* item.Name || item.name || 'Unknown Entity'
nameOf(item) ==
    Or(GetProp(item, "Name").v, Or(GetProp(item, "name").v, JSString(UnknownEntity)))

\* item['MM/YYYY'] || item.monthYear || '01/2024'
monthYearOf(item) ==
    Or(GetProp(item, KeyMonth).v, Or(GetProp(item, "monthYear").v, JSString(DefaultMonth)))

\* whether the mapping of item calls Math.random (|| short-circuits)
DrawsId(item) ==
    /\ item.t \notin {"null", "undefined"}
    /\ ~Truthy(GetProp(item, KeyOppId).v)
    /\ ~Truthy(GetProp(item, "id").v)
    /\ ~Truthy(GetProp(item, "key").v)

\* the object the callback returns
dataRecord(item, q, pot, inv, coll, exp, net) ==
    [id |-> idOf(item, q),
     name |-> nameOf(item),
     potentialRevenue |-> pot,
     invoiceAmount |-> inv,
     dollarsCollected |-> coll,
     expenseIncurred |-> exp,
     netRevenue |-> net,
     monthYear |-> monthYearOf(item)]

withNet(item, q, pot, inv, coll, exp, net) ==
    IF net.thrown THEN net ELSE Return(dataRecord(item, q, pot, inv, coll, exp, net.v))

\* the callback once pot, inv, coll and exp are evaluated
withAmounts(item, q, pot, inv, coll, exp) ==
    IF pot.thrown THEN pot
    ELSE IF inv.thrown THEN inv
    ELSE IF coll.thrown THEN coll
    ELSE IF exp.thrown THEN exp
    ELSE withNet(item, q, pot.v, inv.v, coll.v, exp.v,
                 netOf(GetProp(item, KeyNet).v, coll.v, exp.v))

\* the callback on one item, q being the draw Math.random() returns if called:
\* the DataRecord, or the exception of the first statement that throws
formatItem(item, q) ==
    IF GetProp(item, KeyPotential).thrown THEN Throw("TypeError")
    ELSE withAmounts(item, q,
                     parseCurrency(GetProp(item, KeyPotential).v),
                     parseCurrency(GetProp(item, KeyInvoice).v),
                     parseCurrency(GetProp(item, KeyCollected).v),
                     parseCurrency(GetProp(item, KeyExpense).v))

Mapped(records, calls) == [thrown |-> FALSE, v |-> records, calls |-> calls]
MapThrew(e, calls) == [thrown |-> TRUE, v |-> e, calls |-> calls]

\* the Math.random() calls the callback has made before element i
drawsBefore(dataArray, i) == Cardinality({j \in 1..(i - 1) : DrawsId(dataArray[j])})

\* the callback on element i
formatAt(dataArray, i, seed) ==
    formatItem(dataArray[i], MathRandom(seed, drawsBefore(dataArray, i)))

\* the first element on which the callback throws
firstThrow(dataArray, seed) ==
    CHOOSE i \in DOMAIN dataArray :
        /\ formatAt(dataArray, i, seed).thrown
        /\ \A j \in 1..(i - 1) : ~formatAt(dataArray, j, seed).thrown

\* dataArray.map(callback): the records in order, or the first exception;
\* calls counts the Math.random() calls made
formattedData(dataArray, seed) ==
    IF \E i \in DOMAIN dataArray : formatAt(dataArray, i, seed).thrown
    THEN MapThrew(formatAt(dataArray, firstThrow(dataArray, seed), seed).v,
                  drawsBefore(dataArray, firstThrow(dataArray, seed)))
    ELSE Mapped([i \in DOMAIN dataArray |-> formatAt(dataArray, i, seed).v],
                drawsBefore(dataArray, Len(dataArray) + 1))

(***************************************************************************)
(* generateMockData                                                        *)
(***************************************************************************)
MockNames == <<<<"A", "c", "m", "e", " ", "C", "o", "r", "p">>,
               <<"G", "l", "o", "b", "e", "x">>,
               <<"S", "o", "y", "l", "e", "n", "t", " ", "C", "o", "r", "p">>,
               <<"I", "n", "i", "t", "e", "c", "h">>,
               <<"U", "m", "b", "r", "e", "l", "l", "a", " ", "C", "o">>>>
MockMonths == <<<<"0", "1", "/", "2", "0", "2", "4">>,
                <<"0", "2", "/", "2", "0", "2", "4">>,
                <<"0", "3", "/", "2", "0", "2", "4">>,
                <<"0", "4", "/", "2", "0", "2", "4">>,
                <<"0", "5", "/", "2", "0", "2", "4">>>>

\* the record pushed for names[n] and months[m]; its four Math.random()
\* calls are draws k, k + 1, k + 2, k + 3 (pot, coll, exp, id, in that order).
\* With pot in whole units: inv = pot * 0.85 and
\* coll = inv * (0.7 + q/1296 * 0.3) = pot * 85 * (3024 + q) / 4320 hundredths
mockRecord(n, m, seed, k) ==
    LET pot == ((MathRandom(seed, k) * 15000) \div 1296) + 5000
        inv == pot * 85
        coll == (17 * pot * (3024 + MathRandom(seed, k + 1))) \div 864
        exp == (((MathRandom(seed, k + 2) * 4000) \div 1296) + 500) * Scale
    IN  [id |-> JSString(randomId(MathRandom(seed, k + 3))),
         name |-> JSString(MockNames[n]),
         potentialRevenue |-> pot * Scale,
         invoiceAmount |-> inv,
         dollarsCollected |-> coll,
         expenseIncurred |-> exp,
         netRevenue |-> coll - exp,
         monthYear |-> JSString(MockMonths[m])]

\* names.forEach(name => months.forEach(month => data.push(...)))
\* calls is the number of Math.random() calls made before
generateMockData(seed, calls) ==
    [i \in 1..(Len(MockNames) * Len(MockMonths)) |->
        mockRecord(((i - 1) \div Len(MockMonths)) + 1, ((i - 1) % Len(MockMonths)) + 1,
                   seed, calls + 4 * (i - 1))]

(***************************************************************************)
(* The memoised derivations of App                                         *)
(***************************************************************************)
All == <<"A", "l", "l">>

\* SameValueZero on JSON values: primitives by value; no two objects or
\* arrays of a parsed body are the same object
SameValueZero(x, y) == x.t \notin {"object", "array"} /\ x = y

\* the n-th smallest element of a set of numbers
Nth(K, n) == CHOOSE k \in K : Cardinality({j \in K : j <= k}) = n

\* the indices of values that hold the first occurrence of their value
FirstOccurrences(values) ==
    {i \in DOMAIN values : \A j \in 1..(i - 1) : ~SameValueZero(values[j], values[i])}

\* [...new Set(values)]: the first occurrence of each value, in order
SetOf(values) ==
    [n \in 1..Cardinality(FirstOccurrences(values)) |->
        values[Nth(FirstOccurrences(values), n)]]

\* whether arr[j] stands before arr[i] once arr is sorted: it compares smaller,
\* or compares equal and stood before (Array.prototype.sort is stable);
\* cmp[<<a, b>>] is the comparator's result
SortsBefore(arr, j, i, cmp) ==
    \/ cmp[<<arr[j], arr[i]>>] < 0
    \/ cmp[<<arr[j], arr[i]>>] = 0 /\ j < i

\* the index in arr of the element that sorting puts at position n
SortedAt(arr, n, cmp) ==
    CHOOSE i \in DOMAIN arr :
        Cardinality({j \in DOMAIN arr : j # i /\ SortsBefore(arr, j, i, cmp)}) = n - 1

\* arr.sort(comparator), for a comparator that orders the elements of arr
\* consistently
SortBy(arr, cmp) == [n \in DOMAIN arr |-> arr[SortedAt(arr, n, cmp)]]

\* the comparison of sort() without a comparator: by the elements' strings
defaultCompare(a, b) ==
    LET sa == toString(a).v
        sb == toString(b).v
    IN  IF StrLess(sa, sb) THEN -1 ELSE IF StrLess(sb, sa) THEN 1 ELSE 0

\* ['All', ...new Set(rawData.map(r => r.name))].sort()
uniqueNamesOf(raw) ==
    LET arr == <<JSString(All)>> \o SetOf([i \in DOMAIN raw |-> raw[i].name])
    IN  SortBy(arr, [p \in Range(arr) \X Range(arr) |-> defaultCompare(p[1], p[2])])

\* s.split('/')
RECURSIVE Split(_)
Split(s) ==
    IF \A i \in DOMAIN s : s[i] # "/" THEN <<s>>
    ELSE LET i == CHOOSE j \in DOMAIN s : s[j] = "/" /\ \A k \in 1..(j - 1) : s[k] # "/"
         IN  <<SubSeq(s, 1, i - 1)>> \o Split(SubSeq(s, i + 1, Len(s)))

\* Number(text) for a text without sign, point or blanks: its decimal value,
\* 0 for the empty text, NaN for anything else
ToNumber(s) ==
    IF \A i \in DOMAIN s : IsDigit(s[i]) THEN Finite(DigitsValue(s)) ELSE NaN

\* const [m, y] = a.split('/').map(Number); y * 12 + m (a missing part is
\* undefined and makes the sum NaN)
monthKey(s) ==
    LET parts == Split(s)
        m == ToNumber(parts[1])
        y == IF Len(parts) < 2 THEN NaN ELSE ToNumber(parts[2])
    IN  IF m.nan \/ y.nan THEN NaN ELSE Finite(y.v * 12 + m.v)

\* a comparator that orders the month texts as strings
compareAsText(a, b) ==
    IF StrLess(toString(a).v, toString(b).v) THEN -1
    ELSE IF StrLess(toString(b).v, toString(a).v) THEN 1 ELSE 0

\* the comparator of uniqueMonths; a NaN result sorts as 0
monthCompare(a, b) ==
    IF a = JSString(All) THEN -1
    ELSE IF b = JSString(All) THEN 1
    ELSE LET ka == monthKey(a.v)
             kb == monthKey(b.v)
         IN  IF ka.nan \/ kb.nan THEN 0 ELSE ka.v - kb.v

\* ['All', ...new Set(rawData.map(r => r.monthYear))].sort(comparator)
uniqueMonthsOf(raw) ==
    LET arr == <<JSString(All)>> \o SetOf([i \in DOMAIN raw |-> raw[i].monthYear])
    IN  SortBy(arr, [p \in Range(arr) \X Range(arr) |-> monthCompare(p[1], p[2])])

\* a predicate that leaves the month filter out
matchesName(r, fName, fMonth) == fName = JSString(All) \/ r.name = fName

\* the predicate of rawData.filter
matches(r, fName, fMonth) ==
    LET nameMatch == fName = JSString(All) \/ r.name = fName
        monthMatch == fMonth = JSString(All) \/ r.monthYear = fMonth
    IN  nameMatch /\ monthMatch

filteredDataOf(raw, fName, fMonth) ==
    SelectSeq(raw, LAMBDA r : matches(r, fName, fMonth))

\* (n / d) * 100, kept as the exact quotient
Percent(n, d) == [num |-> n, den |-> d]
ZeroRate == [num |-> 0, den |-> 1]

\* the sum the reduce callback accumulates in field total from field f
RECURSIVE sumTo(_, _, _)
sumTo(filtered, f, n) ==
    IF n = 0 THEN 0 ELSE sumTo(filtered, f, n - 1) + filtered[n][f]

sumOf(filtered, f) == sumTo(filtered, f, Len(filtered))

\* filteredData.reduce(callback, initial), initial holding 0 in every field
reduceTotals(filtered) ==
    [totalPotentialRevenue |-> sumOf(filtered, "potentialRevenue"),
     totalInvoiceAmount |-> sumOf(filtered, "invoiceAmount"),
     totalDollarsCollected |-> sumOf(filtered, "dollarsCollected"),
     totalExpenseIncurred |-> sumOf(filtered, "expenseIncurred"),
     totalNetRevenue |-> sumOf(filtered, "netRevenue")]

collectionRateOf(s) ==
    IF s.totalInvoiceAmount > 0
    THEN Percent(s.totalDollarsCollected, s.totalInvoiceAmount)
    ELSE ZeroRate

statsOf(filtered) ==
    LET s == reduceTotals(filtered)
    IN  [totalPotentialRevenue |-> s.totalPotentialRevenue,
         totalInvoiceAmount |-> s.totalInvoiceAmount,
         totalDollarsCollected |-> s.totalDollarsCollected,
         totalExpenseIncurred |-> s.totalExpenseIncurred,
         totalNetRevenue |-> s.totalNetRevenue,
         collectionRate |-> collectionRateOf(s)]

(***************************************************************************)
(* The webhook's outcomes                                                  *)
(***************************************************************************)
\* fetch rejected (network failure)
Rejected == [kind |-> "rejected"]
\* a response: ok is response.ok, parses whether response.json() resolves,
\* data the parsed body
Response(ok, parses, data) == [kind |-> "response", ok |-> ok, parses |-> parses, data |-> data]
NoResponse == [kind |-> "pending"]

\* the record of the specification's example (section 8)
SampleItem ==
    JSObject(("Name" :> JSString(<<"A", "c", "m", "e">>)) @@ (KeyPotential :> JSString(<<"$", "1", "0", "0">>))
             @@ (KeyNet :> JSNull) @@ (KeyCollected :> JSString(<<"5", "0">>))
             @@ (KeyExpense :> JSString(<<"1", "0">>)))

\* the elements a webhook body is drawn from
RawItems ==
    { SampleItem,
      JSObject(EmptyProps),
      JSNull,
      JSObject(("name" :> JSString(<<"Z", "e", "d">>)) @@ (KeyMonth :> JSString(<<"0", "3", "/", "2", "0", "2", "4">>))
               @@ (KeyInvoice :> JSNumber(200 * Scale)) @@ (KeyCollected :> JSString(<<"1", "5", "0">>))),
      JSObject(("Name" :> JSString(<<"A", "c", "m", "e">>)) @@ ("monthYear" :> JSString(<<"1", "2", "/", "2", "0", "2", "3">>))
               @@ (KeyInvoice :> JSString(<<"-", "4", "0">>)) @@ (KeyNet :> JSString(<<"7", ".", "5">>))
               @@ (KeyOppId :> JSString(<<"A", "1">>))),
      JSObject(("Name" :> JSString(All)) @@ (KeyMonth :> JSString(<<"0", "2", "/", "2", "0", "2", "4">>))
               @@ (KeyPotential :> JSString(<<"$", "1", ",", "2", "5", "0", ".", "0", "0">>)) @@ (KeyExpense :> JSString(<<"a", "b", "c">>))),
      JSObject(("Name" :> JSString(<<"B", "o">>)) @@ (KeyMonth :> JSString(<<"1", "3", "/", "2", "0", "2", "3">>))
               @@ (KeyInvoice :> JSString(<<"8", "0">>)) @@ (KeyCollected :> JSNumber(60 * Scale))),
      JSObject(("Name" :> JSString(<<"B", "o">>))
               @@ (KeyPotential :> JSObject("toString" :> JSNumber(Scale)))) }

\* arrays of at most n elements of RawItems
ItemArrays == SeqsUpTo(RawItems, MaxItems)

Responses ==
    {Rejected, Response(FALSE, FALSE, JSNull), Response(TRUE, FALSE, JSNull)}
    \cup {Response(TRUE, TRUE, JSArray(a)) : a \in ItemArrays}
    \cup {Response(TRUE, TRUE, d) : d \in RawItems \cup {JSNumber(5 * Scale)}}

(***************************************************************************)
(* State                                                                   *)
(***************************************************************************)
VARIABLES
    pc,            \* where fetchData stands
    seed,          \* the seed of Math.random
    response,      \* the outcome of the webhook GET, once settled
    rawData, status, usingMockData, filterName, filterMonth,   \* useState
    uniqueNames, uniqueMonths, filteredData, stats,            \* useMemo
    aiInsight,     \* useState: the displayed insight
    fetchCalls,    \* the number of webhook GETs issued
    insightArgs,   \* the record lists getFinancialInsight was called with, in order
    insightPending,\* the calls still in flight (indices of insightArgs)
    arg, ret       \* the input and the result of a function applied on its own

insightVars == <<aiInsight, insightArgs, insightPending>>
appVars == <<pc, seed, response, rawData, status, usingMockData, filterName, filterMonth,
             uniqueNames, uniqueMonths, filteredData, stats, fetchCalls, insightVars>>
vars == <<pc, seed, response, rawData, status, usingMockData, filterName, filterMonth,
          uniqueNames, uniqueMonths, filteredData, stats, fetchCalls, insightVars,
          arg, ret>>

\* useState<string>('Analyzing financial trends...')
InitialInsight ==
    <<"A", "n", "a", "l", "y", "z", "i", "n", "g", " ", "f", "i", "n", "a",
      "n", "c", "i", "a", "l", " ", "t", "r", "e", "n", "d", "s", ".", ".",
      ".">>

\* the state after the first render (useState initial values, memos computed)
AppInit ==
    /\ pc = "effect"
    /\ seed \in Seeds
    /\ response = NoResponse
    /\ rawData = <<>>
    /\ status = "IDLE"
    /\ usingMockData = FALSE
    /\ filterName = JSString(All)
    /\ filterMonth = JSString(All)
    /\ uniqueNames = uniqueNamesOf(<<>>)
    /\ uniqueMonths = uniqueMonthsOf(<<>>)
    /\ filteredData = filteredDataOf(<<>>, JSString(All), JSString(All))
    /\ stats = statsOf(<<>>)
    /\ aiInsight = JSString(InitialInsight)
    /\ fetchCalls = 0
    /\ insightArgs = <<>>
    /\ insightPending = {}

Init == AppInit /\ arg = <<>> /\ ret = <<>>

(***************************************************************************)
(* Rendering: each state assignment re-renders App, and a useMemo value is *)
(* recomputed when one of its dependencies changed                         *)
(***************************************************************************)
namesDepsChanged(raw) == raw # rawData
monthsDepsChanged(raw) == raw # rawData
\* a dependency array of [rawData] alone
rawDataChanged(raw, fName, fMonth) == raw # rawData
filteredDepsChanged(raw, fName, fMonth) ==
    raw # rawData \/ fName # filterName \/ fMonth # filterMonth

\* the render that follows rawData, filterName, filterMonth taking these values
Render(raw, fName, fMonth) ==
    /\ uniqueNames' = IF namesDepsChanged(raw) THEN uniqueNamesOf(raw) ELSE uniqueNames
    /\ uniqueMonths' = IF monthsDepsChanged(raw) THEN uniqueMonthsOf(raw) ELSE uniqueMonths
    /\ \E filtered \in {IF filteredDepsChanged(raw, fName, fMonth)
                         THEN filteredDataOf(raw, fName, fMonth) ELSE filteredData} :
          /\ filteredData' = filtered
          \* stats depends on [filteredData], a new array whenever it is recomputed
          /\ stats' = IF filteredDepsChanged(raw, fName, fMonth)
                      THEN statsOf(filtered) ELSE stats

(***************************************************************************)
(* getFinancialInsight and the effect that calls it                        *)
(***************************************************************************)
ProvideData ==
    <<"P", "r", "o", "v", "i", "d", "e", " ", "d", "a", "t", "a", " ", "t",
      "o", " ", "g", "e", "n", "e", "r", "a", "t", "e", " ", "A", "I", " ",
      "i", "n", "s", "i", "g", "h", "t", "s", ".">>
InsightUnavailable ==
    <<"I", "n", "s", "i", "g", "h", "t", " ", "u", "n", "a", "v", "a", "i",
      "l", "a", "b", "l", "e", ".">>
ErrorGenerating ==
    <<"E", "r", "r", "o", "r", " ", "g", "e", "n", "e", "r", "a", "t", "i",
      "n", "g", " ", "A", "I", " ", "i", "n", "s", "i", "g", "h", "t", "s",
      ".">>

\* ai.models.generateContent(...) rejects, or resolves with a response whose
\* text is undefined, empty or a sentence
GenerateRejected == [kind |-> "rejected"]
Generated(text) == [kind |-> "response", text |-> text]
GenerateOutcomes ==
    {GenerateRejected, Generated(JSUndefined), Generated(JSString(<<>>)),
     Generated(JSString(<<"U", "p", ".">>))}

\* records.map(r => `${r.name}: Rev ${r.dollarsCollected}, ...`).join("; "),
\* evaluated before the try block: the text goes to the service only, and
\* building it throws when a name cannot be converted to a string
summaryThrows(records) == \E i \in DOMAIN records : toString(records[i].name).thrown

\* the value the returned promise resolves to (Return), or what it is
\* rejected with (Throw); apiKey is whether process.env.API_KEY is set,
\* outcome what generateContent does
getFinancialInsight(records, apiKey, outcome) ==
    IF ~apiKey \/ Len(records) = 0 THEN Return(JSString(ProvideData))
    ELSE IF summaryThrows(records) THEN Throw("TypeError")
    ELSE IF outcome.kind = "rejected" THEN Return(JSString(ErrorGenerating))
    ELSE Return(Or(outcome.text, JSString(InsightUnavailable)))

\* rawData.slice(0, 15)
InsightLimit == 15
slice(raw) == SubSeq(raw, 1, IF Len(raw) < InsightLimit THEN Len(raw) ELSE InsightLimit)

everyRender(raw, st) == TRUE

\* the dependency array [rawData, status] of the insight effect
insightDepsChanged(raw, st) == raw # rawData \/ st # status

\* the insight effect after a render in which rawData and status are raw, st
InsightEffect(raw, st) ==
    IF insightDepsChanged(raw, st) /\ Len(raw) > 0 /\ st = "SUCCESS"
    THEN /\ insightArgs' = Append(insightArgs, slice(raw))
         /\ insightPending' = insightPending \cup {Len(insightArgs) + 1}
    ELSE UNCHANGED <<insightArgs, insightPending>>

(***************************************************************************)
(* fetchData                                                               *)
(***************************************************************************)
refetchOnFilter(fName, fMonth) == fName # filterName \/ fMonth # filterMonth

\* the effect of fetchData has the dependency array []: no render re-runs it
fetchDepsChanged(fName, fMonth) == FALSE

\* where fetchData stands after a render in which the filters are fName, fMonth
pcAfterRender(fName, fMonth) == IF fetchDepsChanged(fName, fMonth) THEN "effect" ELSE pc

\* Array.isArray(data) ? data : [data]
coerce(data) == IF data.t = "array" THEN data.v ELSE <<data>>

statusOnEntry == "LOADING"
statusAfterTry == "SUCCESS"
\* a catch block that surfaces the failure
statusError == "ERROR"
statusAfterCatch == "SUCCESS"

\* a length check that lets the empty collection through
emptyAccepted(dataArray) == FALSE

\* dataArray.length === 0
isEmptyDataSet(dataArray) == Len(dataArray) = 0

\* the try block up to its first state assignment: the formatted records, or
\* the exception that enters the catch block (with the Math.random() calls made)
tryBlock(resp, sd) ==
    IF resp.kind = "rejected" THEN [thrown |-> TRUE, v |-> "TypeError", calls |-> 0]
    ELSE IF ~resp.ok THEN [thrown |-> TRUE, v |-> "Error", calls |-> 0]
    ELSE IF ~resp.parses THEN [thrown |-> TRUE, v |-> "SyntaxError", calls |-> 0]
    ELSE LET dataArray == coerce(resp.data)
         IN  IF isEmptyDataSet(dataArray) THEN [thrown |-> TRUE, v |-> "Error", calls |-> 0]
             ELSE formattedData(dataArray, sd)

\* the effect runs after the first render: setStatus(LOADING), then fetch
RunEffect ==
    /\ pc = "effect"
    /\ status' = statusOnEntry
    /\ fetchCalls' = fetchCalls + 1
    /\ pc' = "await"
    /\ Render(rawData, filterName, filterMonth)
    /\ InsightEffect(rawData, statusOnEntry)
    /\ UNCHANGED <<seed, response, rawData, usingMockData, filterName, filterMonth,
                   aiInsight, arg, ret>>

\* generateMockData() of the catch block, or the formattedData of the try block
rawDataAfter(out) == IF out.thrown THEN generateMockData(seed, out.calls) ELSE out.v

\* the GET settles: fetch rejects, or resolves with a response whose body
\* response.json() then parses or fails to parse; fetchData resumes and runs
\* to the first state assignment, setRawData(formattedData) of the try block
\* or setRawData(generateMockData()) of the catch block
FetchSettles(resp) ==
    /\ pc = "await"
    /\ response' = resp
    /\ \E out \in {tryBlock(resp, seed)} :
          /\ pc' = IF out.thrown THEN "catch_setUsingMockData" ELSE "try_setUsingMockData"
          /\ \E raw \in {rawDataAfter(out)} :
                /\ rawData' = raw
                /\ Render(raw, filterName, filterMonth)
                /\ InsightEffect(raw, status)
    /\ UNCHANGED <<seed, status, usingMockData, filterName, filterMonth,
                   aiInsight, fetchCalls, arg, ret>>

\* setUsingMockData(false) of the try block, setUsingMockData(true) of the catch block
\* setUsingMockData(false) in the try block
usingMockDataAfterTry == FALSE

usingMockDataUnset == FALSE

\* setUsingMockData(true) in the catch block
usingMockDataAfterCatch == TRUE

SetUsingMockData ==
    /\ pc \in {"try_setUsingMockData", "catch_setUsingMockData"}
    /\ usingMockData' = IF pc = "try_setUsingMockData"
                        THEN usingMockDataAfterTry ELSE usingMockDataAfterCatch
    /\ pc' = IF pc = "try_setUsingMockData" THEN "try_setStatus" ELSE "catch_setStatus"
    /\ Render(rawData, filterName, filterMonth)
    /\ InsightEffect(rawData, status)
    /\ UNCHANGED <<seed, response, rawData, status, filterName, filterMonth,
                   aiInsight, fetchCalls, arg, ret>>

\* setStatus(LoadingStatus.SUCCESS) of either block
SetStatus ==
    /\ pc \in {"try_setStatus", "catch_setStatus"}
    /\ \E st \in {IF pc = "try_setStatus" THEN statusAfterTry ELSE statusAfterCatch} :
          /\ status' = st
          /\ InsightEffect(rawData, st)
    /\ pc' = "done"
    /\ Render(rawData, filterName, filterMonth)
    /\ UNCHANGED <<seed, response, rawData, usingMockData, filterName, filterMonth,
                   aiInsight, fetchCalls, arg, ret>>

(***************************************************************************)
(* The filter selects (rendered unless status is LOADING); an option's     *)
(* value is the string of the element it shows                             *)
(***************************************************************************)
optionValue(x) == JSString(toString(x).v)

SetFilterName(n) ==
    /\ status # "LOADING"
    /\ \E i \in DOMAIN uniqueNames : n = optionValue(uniqueNames[i])
    /\ filterName' = n
    /\ Render(rawData, n, filterMonth)
    /\ InsightEffect(rawData, status)
    /\ pc' = pcAfterRender(n, filterMonth)
    /\ UNCHANGED <<seed, response, rawData, status, usingMockData, filterMonth,
                   aiInsight, fetchCalls, arg, ret>>

SetFilterMonth(m) ==
    /\ status # "LOADING"
    /\ \E i \in DOMAIN uniqueMonths : m = optionValue(uniqueMonths[i])
    /\ filterMonth' = m
    /\ Render(rawData, filterName, m)
    /\ InsightEffect(rawData, status)
    /\ pc' = pcAfterRender(filterName, m)
    /\ UNCHANGED <<seed, response, rawData, status, usingMockData, filterName,
                   aiInsight, fetchCalls, arg, ret>>

(***************************************************************************)
(* The insight arrives                                                     *)
(***************************************************************************)
\* call i of getFinancialInsight settles; when its promise resolves,
\* .then(setAiInsight) assigns the result and App renders again
InsightSettles(i, apiKey, outcome) ==
    /\ i \in insightPending
    /\ insightPending' = insightPending \ {i}
    /\ \E result \in {getFinancialInsight(insightArgs[i], apiKey, outcome)} :
          aiInsight' = IF result.thrown THEN aiInsight ELSE result.v
    /\ Render(rawData, filterName, filterMonth)
    /\ pc' = pcAfterRender(filterName, filterMonth)
    /\ UNCHANGED <<seed, response, rawData, status, usingMockData, filterName, filterMonth,
                   fetchCalls, insightArgs, arg, ret>>

Next ==
    \/ RunEffect
    \/ pc = "await" /\ \E resp \in Responses : FetchSettles(resp)
    \/ SetUsingMockData
    \/ SetStatus
    \/ \E i \in DOMAIN uniqueNames : SetFilterName(optionValue(uniqueNames[i]))
    \/ \E i \in DOMAIN uniqueMonths : SetFilterMonth(optionValue(uniqueMonths[i]))

\* the loader and the filters, the insight's promise still pending
Spec == Init /\ [][Next]_vars

\* every event of the component: the above and the arrival of the insight
NextInsight ==
    \/ Next
    \/ \E i \in insightPending : \E apiKey \in BOOLEAN : \E outcome \in GenerateOutcomes :
          InsightSettles(i, apiKey, outcome)

SpecInsight == Init /\ [][NextInsight]_vars

\* the effect and the continuations of fetchData are scheduled by the runtime
\* and run once enabled; whether the GET settles is up to the network
FairSpec ==
    Spec /\ WF_vars(RunEffect) /\ WF_vars(SetUsingMockData)
         /\ WF_vars(SetStatus)

(***************************************************************************)
(* parseCurrency applied on its own                                        *)
(***************************************************************************)
CurrencyAlphabet == {"$", ",", "-", ".", "1", "5", "a"}

ParseInputs ==
    {JSNull, JSUndefined, JSBoolean(TRUE), JSBoolean(FALSE)}
    \cup {JSNumber(n) : n \in {0, 42 * Scale, -150, 5}}
    \cup {JSString(t) : t \in SeqsUpTo(CurrencyAlphabet, MaxStrLen)}
    \cup {JSString(<<"$", "1", ",", "2", "5", "0", ".", "0", "0">>), JSString(<<"a", "b", "c">>), JSString(<<"-", "1", "2", ".", "5">>)}
    \cup {JSObject(EmptyProps), JSObject("toString" :> JSNumber(Scale)),
          JSObject("amount" :> JSNumber(Scale))}
    \cup {JSArray(<<>>), JSArray(<<JSNumber(150), JSNull, JSNumber(-7 * Scale)>>),
          JSArray(<<JSObject("toString" :> JSNull)>>)}

ParseInit == AppInit /\ arg \in ParseInputs /\ ret = <<>>

ApplyParseCurrency ==
    /\ ret = <<>>
    /\ ret' = <<parseCurrency(arg)>>
    /\ UNCHANGED <<appVars, arg>>

SpecParse == ParseInit /\ [][ApplyParseCurrency]_vars

(***************************************************************************)
(* The record mapping applied to one element on its own                    *)
(***************************************************************************)
Field(key, value) == IF value = JSUndefined THEN EmptyProps ELSE (key :> value)

\* per key: absent (undefined), a falsy value, a truthy value
OppIdValues == {JSUndefined, JSNumber(0), JSString(<<"O", "P", "P">>)}
IdValues == {JSUndefined, JSString(<<>>), JSNumber(7 * Scale)}
KeyValues == {JSUndefined, JSNull, JSString(<<"K", "1">>)}
UpperNameValues == {JSUndefined, JSString(<<>>), JSString(<<"A", "c", "m", "e">>)}
LowerNameValues == {JSUndefined, JSBoolean(FALSE), JSString(<<"Z", "e", "d">>)}
SlashMonthValues == {JSUndefined, JSNull, JSString(<<"0", "3", "/", "2", "0", "2", "4">>)}
MonthYearValues == {JSUndefined, JSString(<<>>), JSString(<<"1", "2", "/", "2", "0", "2", "3">>)}
NetValues == {JSUndefined, JSNull, JSString(<<>>), JSString(<<"7", ".", "5">>), JSNumber(-3 * Scale)}
CollectedValues == {JSUndefined, JSString(<<"5", "0">>)}
ExpenseValues == {JSUndefined, JSString(<<"1", "0">>)}

NormInputs ==
    { JSObject(Field(KeyOppId, a) @@ Field("id", b) @@ Field("key", c)
               @@ Field("Name", d) @@ Field("name", e)
               @@ Field(KeyMonth, f) @@ Field("monthYear", g)
               @@ Field(KeyNet, h) @@ Field(KeyCollected, i) @@ Field(KeyExpense, j)) :
        a \in OppIdValues, b \in IdValues, c \in KeyValues,
        d \in UpperNameValues, e \in LowerNameValues,
        f \in SlashMonthValues, g \in MonthYearValues,
        h \in NetValues, i \in CollectedValues, j \in ExpenseValues }
    \cup {SampleItem, JSNull, JSNumber(5 * Scale),
          JSObject(("Name" :> JSString(<<"B", "o">>))
                   @@ (KeyPotential :> JSObject("toString" :> JSNumber(Scale))))}

NormInit == AppInit /\ arg \in NormInputs /\ ret = <<>>

\* the callback on arg, Math.random() returning the generator's first draw
ApplyFormatItem ==
    /\ ret = <<>>
    /\ ret' = <<formatItem(arg, MathRandom(seed, 0))>>
    /\ UNCHANGED <<appVars, arg>>

SpecNorm == NormInit /\ [][ApplyFormatItem]_vars

(***************************************************************************)
(* uniqueMonths applied to a record collection on its own                  *)
(***************************************************************************)
MonthTexts ==
    {<<"0", "1", "/", "2", "0", "2", "4">>,
     <<"0", "2", "/", "2", "0", "2", "4">>,
     <<"0", "3", "/", "2", "0", "2", "4">>,
     <<"1", "2", "/", "2", "0", "2", "3">>,
     <<"1", "3", "/", "2", "0", "2", "3">>}

\* a DataRecord of the given month
MonthRecord(m) ==
    [id |-> JSString(<<"r">>), name |-> JSString(UnknownEntity),
     potentialRevenue |-> 0, invoiceAmount |-> 0, dollarsCollected |-> 0,
     expenseIncurred |-> 0, netRevenue |-> 0, monthYear |-> JSString(m)]

MonthInputs ==
    {[k \in DOMAIN ms |-> MonthRecord(ms[k])] : ms \in SeqsUpTo(MonthTexts, MaxMonths)}

MonthsInit == AppInit /\ arg \in MonthInputs /\ ret = <<>>

ApplyUniqueMonths ==
    /\ ret = <<>>
    /\ ret' = <<uniqueMonthsOf(arg)>>
    /\ UNCHANGED <<appVars, arg>>

SpecMonths == MonthsInit /\ [][ApplyUniqueMonths]_vars

(***************************************************************************)
(* Properties                                                              *)
(***************************************************************************)
SettledOk == response.kind = "response" /\ response.ok /\ response.parses

\* the steps of the sequence IDLE -> LOADING -> SUCCESS
C1_StatusStep ==
    \/ status' = status
    \/ status = "IDLE" /\ status' = "LOADING"
    \/ status = "LOADING" /\ status' = "SUCCESS"

\* C1: whatever the webhook's outcome, status only ever steps IDLE -> LOADING
\* -> SUCCESS: it is never ERROR, it never leaves SUCCESS, and once the fetch
\* has settled it eventually is SUCCESS.
C1_StatusSequence ==
    /\ [][C1_StatusStep]_vars
    /\ [](status # "ERROR")
    /\ (response # NoResponse) ~> (status = "SUCCESS")

C1_Witness ==
    pc = "done" /\ status = "SUCCESS" /\ response.kind = "response" /\ ~response.ok

\* the failure paths the claim C2 lists: response not ok, body not JSON, body []
C2_FailurePath ==
    /\ response.kind = "response"
    /\ \/ ~response.ok
       \/ ~response.parses
       \/ response.data.t = "array" /\ response.data.v = <<>>

\* C2: when the load has ended on a failure path (response not successful,
\* body not parseable, body an empty collection), the record collection is the
\* mock generator's output of 25 records, usingMockData is true and status is
\* SUCCESS.
C2_FailureFallsBackToMock ==
    (pc = "done" /\ C2_FailurePath) =>
        /\ rawData = generateMockData(seed, 0)
        /\ Len(rawData) = 25
        /\ \A i \in DOMAIN rawData :
              /\ rawData[i].name.v = MockNames[((i - 1) \div 5) + 1]
              /\ rawData[i].monthYear.v = MockMonths[((i - 1) % 5) + 1]
        /\ usingMockData = TRUE
        /\ status = "SUCCESS"

C2_Witness ==
    /\ pc = "done" /\ usingMockData /\ Len(rawData) = 25
    /\ SettledOk /\ response.data = JSArray(<<>>)

\* C3: when the response is successful and its body is a non-empty array or a
\* single value, the load ends with usingMockData false and one record per
\* element of the coerced collection: no element makes it fall back to mock
\* data.
C3_EveryShapeIsLive ==
    (pc = "done" /\ SettledOk /\ Len(coerce(response.data)) > 0) =>
        /\ usingMockData = FALSE
        /\ Len(rawData) = Len(coerce(response.data))

\* C4: the normalized netRevenue is the parsed "Net Revenue" field when that
\* field is present and not null, and dollarsCollected - expenseIncurred when
\* it is null and when the key is absent.
C4_NetRevenueResolution ==
    (ret # <<>> /\ arg.t = "object" /\ ~ret[1].thrown) =>
        ret[1].v.netRevenue =
            IF KeyNet \in DOMAIN arg.v /\ arg.v[KeyNet] # JSNull
            THEN parseCurrency(arg.v[KeyNet]).v
            ELSE ret[1].v.dollarsCollected - ret[1].v.expenseIncurred

\* C5: the name options are "All" first, then the distinct record names in
\* lexicographic order, no value twice.
C5_AllThenSortedNames ==
    /\ uniqueNames[1] = JSString(All)
    /\ {uniqueNames[i] : i \in 2..Len(uniqueNames)} = {rawData[k].name : k \in DOMAIN rawData}
    /\ \A i \in 2..Len(uniqueNames) : \A j \in 2..Len(uniqueNames) :
          i < j => StrLess(uniqueNames[i].v, uniqueNames[j].v)
    /\ \A i \in DOMAIN uniqueNames : \A j \in DOMAIN uniqueNames :
          i # j => uniqueNames[i] # uniqueNames[j]

\* a text of the form MM/YYYY: two digits of a month 01..12, "/", four digits
C6_IsMMYYYY(t) ==
    /\ Len(t) = 7
    /\ t[3] = "/"
    /\ \A i \in {1, 2, 4, 5, 6, 7} : IsDigit(t[i])
    /\ 10 * DigitVal(t[1]) + DigitVal(t[2]) \in 1..12

\* year * 12 + month of a text of the form MM/YYYY
C6_MonthIndex(t) ==
    (1000 * DigitVal(t[4]) + 100 * DigitVal(t[5]) + 10 * DigitVal(t[6]) + DigitVal(t[7])) * 12
    + 10 * DigitVal(t[1]) + DigitVal(t[2])

\* C6: for a record collection whose monthYear values all have the form
\* MM/YYYY, the month options are "All" first, then the distinct monthYear
\* values in strictly increasing order of year * 12 + month.
C6_MonthsChronological ==
    (ret # <<>> /\ \A k \in DOMAIN arg : C6_IsMMYYYY(arg[k].monthYear.v)) =>
        /\ ret[1][1] = JSString(All)
        /\ {ret[1][i] : i \in 2..Len(ret[1])} = {arg[k].monthYear : k \in DOMAIN arg}
        /\ \A i \in 2..(Len(ret[1]) - 1) :
              C6_MonthIndex(ret[1][i].v) < C6_MonthIndex(ret[1][i + 1].v)

C6_Witness ==
    /\ ret = << <<JSString(All), JSString(<<"1", "2", "/", "2", "0", "2", "3">>),
                  JSString(<<"0", "1", "/", "2", "0", "2", "4">>),
                  JSString(<<"0", "2", "/", "2", "0", "2", "4">>),
                  JSString(<<"0", "3", "/", "2", "0", "2", "4">>)>> >>
    /\ Len(arg) = 4
    /\ arg[1].monthYear = JSString(<<"0", "3", "/", "2", "0", "2", "4">>)
    /\ arg[2].monthYear = JSString(<<"0", "1", "/", "2", "0", "2", "4">>)
    /\ arg[4].monthYear = JSString(<<"0", "2", "/", "2", "0", "2", "4">>)

\* the match predicate of the claims C7 and C8 on record k of the collection
C7_Match(k) ==
    /\ filterName = JSString(All) \/ rawData[k].name = filterName
    /\ filterMonth = JSString(All) \/ rawData[k].monthYear = filterMonth

C7_Matching == {k \in DOMAIN rawData : C7_Match(k)}

\* the n-th smallest matching index
C7_Nth(n) == CHOOSE k \in C7_Matching : Cardinality({j \in C7_Matching : j <= k}) = n

\* C7: in every state the filtered collection is the order-preserving
\* subsequence of the record collection made of exactly the matching records.
C7_FilteredIsMatchingSubsequence ==
    /\ Len(filteredData) = Cardinality(C7_Matching)
    /\ Len(filteredData) <= Len(rawData)
    /\ \A n \in DOMAIN filteredData : filteredData[n] = rawData[C7_Nth(n)]

C7_Witness ==
    /\ status = "SUCCESS" /\ ~usingMockData
    /\ filterName # JSString(All) /\ filterMonth # JSString(All)
    /\ Len(rawData) = 2 /\ Len(filteredData) = 1 /\ filteredData[1] = rawData[2]

\* the sum of field f over the matching records
RECURSIVE C8_Sum(_, _)
C8_Sum(f, K) ==
    IF K = {} THEN 0
    ELSE LET k == CHOOSE x \in K : TRUE IN rawData[k][f] + C8_Sum(f, K \ {k})

\* C8: in every state the stats are those of the current filtered collection:
\* each total is the sum of its field over the matching records (0 over none)
\* and collectionRate is totalDollarsCollected / totalInvoiceAmount * 100 when
\* totalInvoiceAmount > 0 and 0 otherwise.
C8_StatsAreCurrent ==
    /\ stats.totalPotentialRevenue = C8_Sum("potentialRevenue", C7_Matching)
    /\ stats.totalInvoiceAmount = C8_Sum("invoiceAmount", C7_Matching)
    /\ stats.totalDollarsCollected = C8_Sum("dollarsCollected", C7_Matching)
    /\ stats.totalExpenseIncurred = C8_Sum("expenseIncurred", C7_Matching)
    /\ stats.totalNetRevenue = C8_Sum("netRevenue", C7_Matching)
    /\ stats.collectionRate =
          IF C8_Sum("invoiceAmount", C7_Matching) > 0
          THEN [num |-> C8_Sum("dollarsCollected", C7_Matching),
                den |-> C8_Sum("invoiceAmount", C7_Matching)]
          ELSE [num |-> 0, den |-> 1]

C8_Witness ==
    /\ status = "SUCCESS" /\ ~usingMockData
    /\ filterMonth # JSString(All)
    /\ Len(filteredData) = 1 /\ Len(rawData) = 2
    /\ stats.totalInvoiceAmount > 0 /\ stats.totalDollarsCollected > 0
    /\ stats.collectionRate.den = stats.totalInvoiceAmount

\* C9: parseCurrency never raises and returns a number: 0 for null, undefined
\* and the empty string, a numeric input unchanged, and for a text the parse
\* of its digits, "." and "-" characters, 0 when that does not parse.
C9_ParseCurrencyTotal ==
    ret # <<>> =>
        /\ ~ret[1].thrown
        /\ ret[1].v \in Int
        /\ (arg \in {JSNull, JSUndefined, JSString(<<>>)} => ret[1].v = 0)
        /\ (arg.t = "number" => ret[1].v = arg.v)
        /\ (arg = JSString(<<"$", "1", ",", "2", "5", "0", ".", "0", "0">>) => ret[1].v = 1250 * Scale)
        /\ (arg = JSString(<<"a", "b", "c">>) => ret[1].v = 0)
        /\ (arg = JSNumber(42 * Scale) => ret[1].v = 42 * Scale)

\* the value of the first of keys that item has, or default
C10_FirstPresent(item, keys, default) ==
    IF \E i \in DOMAIN keys : keys[i] \in DOMAIN item.v
    THEN item.v[keys[CHOOSE i \in DOMAIN keys :
                        /\ keys[i] \in DOMAIN item.v
                        /\ \A j \in 1..(i - 1) : keys[j] \notin DOMAIN item.v]]
    ELSE default

\* the value of the first of keys that item has with a truthy value, or default
C10_FirstTruthy(item, keys, default) ==
    LET ok(k) == k \in DOMAIN item.v /\ Truthy(item.v[k])
    IN  IF \E i \in DOMAIN keys : ok(keys[i])
        THEN item.v[keys[CHOOSE i \in DOMAIN keys :
                            ok(keys[i]) /\ \A j \in 1..(i - 1) : ~ok(keys[j])]]
        ELSE default

C10_IdKeys == <<KeyOppId, "id", "key">>
C10_NameKeys == <<"Name", "name">>
C10_MonthKeys == <<KeyMonth, "monthYear">>

C10_AmountsZero(r) ==
    /\ r.potentialRevenue = 0 /\ r.invoiceAmount = 0 /\ r.dollarsCollected = 0
    /\ r.expenseIncurred = 0 /\ r.netRevenue = 0

C11_SingleFetch ==
    /\ [](fetchCalls = IF pc = "effect" THEN 0 ELSE 1)
    /\ [][fetchCalls' # fetchCalls => (pc = "effect" /\ status = "IDLE")]_vars
    /\ [][rawData' # rawData => (pc = "await" /\ pc' # "await" /\ rawData = <<>>)]_vars

\* a failed request, both filters changed, the insight arrived: still one GET
C11_Witness ==
    /\ pc = "done" /\ fetchCalls = 1
    /\ response = Rejected
    /\ filterName # JSString(All) /\ filterMonth # JSString(All)
    /\ insightArgs # <<>> /\ insightPending = {}


(***************************************************************************)
(* C12  mock or live, never both                                           *)
(***************************************************************************)
\* the collection is what generateMockData() returned in the catch block
C12_IsMockOutput ==
    /\ Len(rawData) = Len(MockNames) * Len(MockMonths)
    /\ tryBlock(response, seed).thrown
    /\ rawData = generateMockData(seed, tryBlock(response, seed).calls)

\* the collection is the normalization of the webhook response: one record
\* per element of the coerced body, each the callback's result on its element
C12_IsNormalization ==
    /\ SettledOk
    /\ Len(rawData) = Len(coerce(response.data))
    /\ \A i \in DOMAIN rawData :
          formatAt(coerce(response.data), i, seed) = Return(rawData[i])

C12_Kind ==
    IF rawData = <<>> THEN "empty"
    ELSE IF C12_IsMockOutput THEN "mock"
    ELSE IF C12_IsNormalization THEN "live"
    ELSE "mixed"

\* C12: in every state the record collection is empty, wholly the mock
\* generator's output or wholly the normalization of the webhook response
\* (also between the loader's three assignments); and whenever status is
\* SUCCESS it is not empty, usingMockData is true exactly when it is the
\* mock output and false exactly when it is the normalization.
C12_OneKind ==
    \E kind \in {C12_Kind} :
        /\ kind # "mixed"
        /\ status = "SUCCESS" =>
              /\ kind # "empty"
              /\ usingMockData <=> kind = "mock"
              /\ ~usingMockData <=> kind = "live"

\* the callback threw on the second element after formatting the first:
\* the collection shown is the mock output alone
C12_Witness ==
    /\ status = "SUCCESS" /\ usingMockData
    /\ SettledOk /\ response.data.t = "array" /\ Len(response.data.v) = 2
    /\ ~formatAt(response.data.v, 1, seed).thrown
    /\ formatAt(response.data.v, 2, seed).thrown
    /\ filterName # JSString(All)


(***************************************************************************)
(* C13  the insight                                                        *)
(***************************************************************************)
\* what getFinancialInsight can resolve to on these records
C13_Results(records) ==
    {getFinancialInsight(records, apiKey, outcome) :
        apiKey \in BOOLEAN, outcome \in GenerateOutcomes}

C13_NonEmptyString(result) ==
    ~result.thrown /\ result.v.t = "string" /\ result.v.v # <<>>

\* C13: getFinancialInsight has been called exactly when status has become
\* SUCCESS, hence once per load, never while LOADING and not again on a
\* filter change; status is then SUCCESS and the record collection not
\* empty; its argument is the first records of the unfiltered collection in
\* order, 15 at most; whatever the key and the service do it resolves to a
\* non-empty string (the fallback texts when there are no records, no text
\* or an error), and the displayed insight is the initial text until it
\* resolves and that string afterwards.
C13_InsightOncePerLoad ==
    /\ Len(insightArgs) = IF status = "SUCCESS" THEN 1 ELSE 0
    /\ \A k \in DOMAIN insightArgs :
          /\ rawData # <<>>
          /\ Len(insightArgs[k]) <= 15
          /\ Len(insightArgs[k]) = 15 \/ Len(insightArgs[k]) = Len(rawData)
          /\ \A i \in DOMAIN insightArgs[k] : insightArgs[k][i] = rawData[i]
          /\ \A result \in C13_Results(insightArgs[k]) : C13_NonEmptyString(result)
          /\ IF k \in insightPending
             THEN aiInsight = JSString(InitialInsight)
             ELSE \E result \in C13_Results(insightArgs[k]) : aiInsight = result.v
    /\ \A result \in C13_Results(<<>>) : result = Return(JSString(ProvideData))
    /\ insightPending \subseteq DOMAIN insightArgs
    /\ C13_NonEmptyString(Return(aiInsight))

\* the 25 mock records are loaded, 15 of them were passed, a filter changed
\* afterwards and the service answered without a text
C13_Witness ==
    /\ status = "SUCCESS" /\ Len(rawData) = 25
    /\ Len(insightArgs) = 1 /\ Len(insightArgs[1]) = 15
    /\ filterMonth # JSString(All)
    /\ insightPending = {}
    /\ aiInsight = JSString(InsightUnavailable)

=============================================================================
